---- MODULE Spec2Model ----
(***************************************************************************)
(* pb-calendar: generate-ics.py (load or create an .ics document, compute  *)
(* the first occurrence of a weekly event, append it, rewrite the file)    *)
(* and tests/test-ics.py (the fixed "every Friday 18:00 IST" script).      *)
(*                                                                         *)
(* Strings that the program parses (--time, --start-date) are sequences of *)
(* one-character strings.  A date is its proleptic Gregorian ordinal       *)
(* (datetime.date.toordinal), a datetime is a record of ordinal, hour,     *)
(* minute, second and the attached zone name ("" for a naive datetime).    *)
(* File content is a sequence of chunks; a chunk stands for a run of bytes *)
(* of the serialized document.                                             *)
(***************************************************************************)
EXTENDS Integers, Sequences, FiniteSets, TLC

VARIABLES
    file,      \* the output path: whether it exists, and its content (chunks)
    pc,        \* pc[p]: position of invocation p in main
    args,      \* args[p]: the parsed command line of invocation p
    raw,       \* raw[p]: the path as load_or_create_calendar found it
    cal,       \* cal[p]: the in-memory Calendar of invocation p
    buf,       \* buf[p]: the bytes cal.to_ical() produced for invocation p
    wlog,      \* history: the invocations in the order their write happened
    calc       \* the calculator under test: inputs and results

vars == <<file, pc, args, raw, cal, buf, wlog, calc>>

-----------------------------------------------------------------------------
(* Bounds of the model *)

\* number of invocations of main
MaxRuns == 3
\* number of invocations of main that may overlap
MaxRacers == 2
\* number of consecutive days the clock is drawn from
MaxNowDays == 7
\* largest number of weekday codes given to the calculator
MaxByDay == 3

-----------------------------------------------------------------------------
(* Strings as character sequences *)

Str_18_00 == <<"1", "8", ":", "0", "0">>
Str_9_30 == <<"9", ":", "3", "0">>
Str_23_30 == <<"2", "3", ":", "3", "0">>
Str_25_00 == <<"2", "5", ":", "0", "0">>
Str_2025_06_06 == <<"2", "0", "2", "5", "-", "0", "6", "-", "0", "6">>
Str_2025_06_31 == <<"2", "0", "2", "5", "-", "0", "6", "-", "3", "1">>

Digits == <<"0", "1", "2", "3", "4", "5", "6", "7", "8", "9">>

IsDigit(c) == \E i \in 1..10 : Digits[i] = c

DigitVal(c) == (CHOOSE i \in 1..10 : Digits[i] = c) - 1

\* int(s) accepts s (only unsigned decimal strings are drawn here)
IsInt(s) == Len(s) > 0 /\ \A i \in 1..Len(s) : IsDigit(s[i])

RECURSIVE IntVal(_)
IntVal(s) ==
    IF Len(s) = 0 THEN 0
    ELSE IntVal(SubSeq(s, 1, Len(s) - 1)) * 10 + DigitVal(s[Len(s)])

\* s.split(sep): the pieces of s between the occurrences of sep
RECURSIVE Split(_, _)
Split(s, sep) ==
    IF \A i \in 1..Len(s) : s[i] # sep THEN <<s>>
    ELSE LET i == CHOOSE j \in 1..Len(s) :
                     s[j] = sep /\ \A k \in 1..(j - 1) : s[k] # sep
         IN <<SubSeq(s, 1, i - 1)>> \o Split(SubSeq(s, i + 1, Len(s)), sep)

-----------------------------------------------------------------------------
(* Dates and datetimes *)

IsLeap(y) == y % 4 = 0 /\ (y % 100 # 0 \/ y % 400 = 0)

DaysInMonth(y, m) ==
    IF m = 2 THEN (IF IsLeap(y) THEN 29 ELSE 28)
    ELSE IF m \in {4, 6, 9, 11} THEN 30 ELSE 31

RECURSIVE DaysBeforeMonth(_, _)
DaysBeforeMonth(y, m) ==
    IF m = 1 THEN 0 ELSE DaysBeforeMonth(y, m - 1) + DaysInMonth(y, m - 1)

DaysBeforeYear(y) ==
    (y - 1) * 365 + ((y - 1) \div 4) - ((y - 1) \div 100) + ((y - 1) \div 400)

\* date(y, m, d).toordinal()
Ymd2Ord(y, m, d) == DaysBeforeYear(y) + DaysBeforeMonth(y, m) + d

\* date.weekday(): Monday = 0 .. Sunday = 6
Weekday(ord) == (ord + 6) % 7

\* datetime.strptime(dt_str, '%Y-%m-%d').date(): ok and the ordinal, or not ok
Strptime(dt_str) ==
    LET p == Split(dt_str, "-")
    IN IF /\ Len(p) = 3
          /\ \A i \in 1..3 : IsInt(p[i])
          /\ Len(p[1]) = 4 /\ Len(p[2]) \in 1..2 /\ Len(p[3]) \in 1..2
          /\ IntVal(p[2]) \in 1..12
          /\ IntVal(p[3]) \in 1..DaysInMonth(IntVal(p[1]), IntVal(p[2]))
       THEN [ok |-> TRUE,
             ord |-> Ymd2Ord(IntVal(p[1]), IntVal(p[2]), IntVal(p[3]))]
       ELSE [ok |-> FALSE, ord |-> 0]

DateTime(ord, hour, minute, second, tz) ==
    [ord |-> ord, hour |-> hour, minute |-> minute, second |-> second, tz |-> tz]

\* dt + timedelta(days = n): wall-clock arithmetic, the zone is kept
AddDays(dt, n) == [dt EXCEPT !.ord = dt.ord + n]

\* dt + timedelta(minutes = n)
AddMinutes(dt, n) ==
    LET total == dt.hour * 60 + dt.minute + n
    IN [dt EXCEPT !.ord = dt.ord + (total \div 1440),
                  !.hour = (total % 1440) \div 60,
                  !.minute = total % 60]

\* a > b for two datetimes of the same zone
After(a, b) ==
    \/ a.ord > b.ord
    \/ a.ord = b.ord /\ a.hour > b.hour
    \/ a.ord = b.ord /\ a.hour = b.hour /\ a.minute > b.minute
    \/ a.ord = b.ord /\ a.hour = b.hour /\ a.minute = b.minute
       /\ a.second > b.second

KOLKATA == "Asia/Kolkata"
UTC == "UTC"
Timezones == {KOLKATA, UTC}

\* pytz.timezone(name).utcoffset, in minutes
UtcOffset(tz) == IF tz = KOLKATA THEN 330 ELSE 0

\* datetime.now(tz): the clock (a UTC instant) as wall-clock time of tz
NowIn(tz, clock) == [AddMinutes(clock, UtcOffset(tz)) EXCEPT !.tz = tz]

-----------------------------------------------------------------------------
(* Occurrence calculator: compute_start *)

Codes == <<"MO", "TU", "WE", "TH", "FR", "SA", "SU">>

codes(w) == (CHOOSE i \in 1..7 : Codes[i] = w) - 1

Range(s) == {s[i] : i \in 1..Len(s)}

NoDateTime == [ord |-> 0, hour |-> 0, minute |-> 0, second |-> 0, tz |-> ""]

\* the call raised err
Failed(err) == [ok |-> FALSE, start |-> NoDateTime, via |-> err]

\* the call returned dt, from the return statement named by via
Started(dt, via) == [ok |-> TRUE, start |-> dt, via |-> via]

\* range(0, 8)
ScanRange_short == 0..6
ScanRange == 0..7

\* cand > now
Later_orEqual(cand, now) == ~After(now, cand)
Later(cand, now) == After(cand, now)

\* tz.localize(naive): attaches the zone, the wall-clock time is kept
Localize_shift(naive, tz) == [AddMinutes(naive, UtcOffset(tz)) EXCEPT !.tz = tz]
Localize(naive, tz) == [naive EXCEPT !.tz = tz]

compute_start(dt_str, time_str, weekdays, tz, clock) ==
    LET parts == Split(time_str, ":")
    IN IF Len(parts) # 2 \/ ~IsInt(parts[1]) \/ ~IsInt(parts[2])
       THEN Failed("ValueError")
       ELSE
       LET hh == IntVal(parts[1])
           mm == IntVal(parts[2])
       IN IF dt_str # <<>>
          THEN LET d == Strptime(dt_str)
               IN IF ~d.ok \/ hh \notin 0..23 \/ mm \notin 0..59
                  THEN Failed("ValueError")
                  ELSE Started(Localize(DateTime(d.ord, hh, mm, 0, ""), tz),
                               "explicit")
          ELSE IF hh \notin 0..23 \/ mm \notin 0..59
          THEN Failed("ValueError")
          ELSE
          LET now == [NowIn(tz, clock) EXCEPT
                          !.hour = hh, !.minute = mm, !.second = 0]
              targets == {codes(w) : w \in Range(weekdays)}
              hits == {delta \in ScanRange :
                          /\ Weekday(AddDays(now, delta).ord) \in targets
                          /\ Later(AddDays(now, delta), now)}
          IN IF hits # {}
             THEN Started(AddDays(now,
                      CHOOSE delta \in hits : \A e \in hits : delta <= e),
                      "loop")
             ELSE Started(AddDays(now, 7), "fallback")

-----------------------------------------------------------------------------
(* tests/test-ics.py: create_pb_hustle_ics, the start it computes *)

\* if days_ahead <= 0: days_ahead += 7
DaysAhead_strict(wd) == IF 4 - wd < 0 THEN 4 - wd + 7 ELSE 4 - wd
DaysAhead(wd) == IF 4 - wd <= 0 THEN 4 - wd + 7 ELSE 4 - wd

first_friday(clock) ==
    LET now == NowIn(KOLKATA, clock)
    IN [AddDays(now, DaysAhead(Weekday(now.ord))) EXCEPT
            !.hour = 18, !.minute = 0, !.second = 0]

-----------------------------------------------------------------------------
(* The calendar document and its serialized form *)

\* the output path: it does not exist, or it exists with content b
NoFile == [exists |-> FALSE, data |-> <<>>]

Stored(b) == [exists |-> TRUE, data |-> b]

Chunk(k, s, n, t) == [k |-> k, s |-> s, n |-> n, t |-> t]

\* a date-time value: zone parameter, date, time of day
DtChunk(k, dt) ==
    Chunk(k, dt.tz, dt.ord, dt.hour * 3600 + dt.minute * 60 + dt.second)

ParseDt(ch) ==
    DateTime(ch.n, ch.t \div 3600, (ch.t % 3600) \div 60, ch.t % 60, ch.s)

\* the VTIMEZONE component load_or_create_calendar embeds
TimezoneComp(tzid) ==
    [kind |-> "VTIMEZONE", tzid |-> tzid,
     dtstart |-> DateTime(Ymd2Ord(1970, 1, 1), 0, 0, 0, ""),
     tzname |-> tzid, tzoffsetfrom |-> 5 * 60 + 30, tzoffsetto |-> 5 * 60 + 30]

\* the VEVENT component main builds
EventComp(summary, dtstart, dtend, byday) ==
    [kind |-> "VEVENT", summary |-> summary, dtstart |-> dtstart,
     dtend |-> dtend, byday |-> byday]

CompBytes(c) ==
    IF c.kind = "VTIMEZONE"
    THEN <<Chunk("BEGIN", "VTIMEZONE", 0, 0),
           Chunk("TZID", c.tzid, 0, 0),
           Chunk("BEGIN", "STANDARD", 0, 0),
           DtChunk("DTSTART", c.dtstart),
           Chunk("TZNAME", c.tzname, 0, 0),
           Chunk("TZOFFSETFROM", "", c.tzoffsetfrom, 0),
           Chunk("TZOFFSETTO", "", c.tzoffsetto, 0),
           Chunk("END", "STANDARD", 0, 0),
           Chunk("END", "VTIMEZONE", 0, 0)>>
    ELSE <<Chunk("BEGIN", "VEVENT", 0, 0),
           Chunk("SUMMARY", c.summary, 0, 0),
           DtChunk("DTSTART", c.dtstart),
           DtChunk("DTEND", c.dtend),
           Chunk("RRULE", "FREQ=WEEKLY", 0, 0)>>
         \o [i \in 1..Len(c.byday) |-> Chunk("BYDAY", c.byday[i], 0, 0)]
         \o <<Chunk("END", "VEVENT", 0, 0)>>

RECURSIVE CompsBytes(_)
CompsBytes(cs) ==
    IF cs = <<>> THEN <<>> ELSE CompBytes(Head(cs)) \o CompsBytes(Tail(cs))

\* Calendar.to_ical(): properties, then the subcomponents in stored order
to_ical(c) ==
    <<Chunk("BEGIN", "VCALENDAR", 0, 0),
      Chunk("VERSION", c.version, 0, 0),
      Chunk("PRODID", c.prodid, 0, 0),
      Chunk("X-WR-TIMEZONE", c.xwr, 0, 0)>>
    \o CompsBytes(c.comps)
    \o <<Chunk("END", "VCALENDAR", 0, 0)>>

NoParse == [ok |-> FALSE, comps |-> <<>>, next |-> 0]

KeysAt(b, i, ks) ==
    /\ i + Len(ks) - 1 <= Len(b)
    /\ \A j \in 1..Len(ks) : b[i + j - 1].k = ks[j]

\* the subcomponents from chunk i up to the calendar's END
RECURSIVE ParseComps(_, _)
ParseComps(b, i) ==
    IF i > Len(b) THEN NoParse
    ELSE IF b[i] = Chunk("END", "VCALENDAR", 0, 0)
    THEN [ok |-> TRUE, comps |-> <<>>, next |-> i]
    ELSE IF b[i] = Chunk("BEGIN", "VTIMEZONE", 0, 0)
    THEN IF /\ KeysAt(b, i + 1, <<"TZID", "BEGIN", "DTSTART", "TZNAME",
                                  "TZOFFSETFROM", "TZOFFSETTO", "END", "END">>)
            /\ b[i + 2].s = "STANDARD" /\ b[i + 7].s = "STANDARD"
            /\ b[i + 8].s = "VTIMEZONE"
         THEN LET rest == ParseComps(b, i + 9)
                  comp == [kind |-> "VTIMEZONE", tzid |-> b[i + 1].s,
                           dtstart |-> ParseDt(b[i + 3]),
                           tzname |-> b[i + 4].s,
                           tzoffsetfrom |-> b[i + 5].n,
                           tzoffsetto |-> b[i + 6].n]
              IN IF rest.ok
                 THEN [rest EXCEPT !.comps = <<comp>> \o rest.comps]
                 ELSE NoParse
         ELSE NoParse
    ELSE IF b[i] = Chunk("BEGIN", "VEVENT", 0, 0)
    THEN IF /\ KeysAt(b, i + 1, <<"SUMMARY", "DTSTART", "DTEND", "RRULE">>)
            /\ \E j \in (i + 5)..Len(b) : b[j].k # "BYDAY"
         THEN LET j == CHOOSE e \in (i + 5)..Len(b) :
                           /\ b[e].k # "BYDAY"
                           /\ \A d \in (i + 5)..(e - 1) : b[d].k = "BYDAY"
                  rest == ParseComps(b, j + 1)
                  comp == EventComp(b[i + 1].s, ParseDt(b[i + 2]),
                                    ParseDt(b[i + 3]),
                                    [d \in 1..(j - i - 5) |-> b[i + 4 + d].s])
              IN IF b[j] = Chunk("END", "VEVENT", 0, 0) /\ rest.ok
                 THEN [rest EXCEPT !.comps = <<comp>> \o rest.comps]
                 ELSE NoParse
         ELSE NoParse
    ELSE NoParse

NoCalendar == [prodid |-> "", version |-> "", xwr |-> "", comps |-> <<>>]

\* Calendar.from_ical(bytes): ok and the document, or not ok (ValueError)
from_ical(b) ==
    IF /\ KeysAt(b, 1, <<"BEGIN", "VERSION", "PRODID", "X-WR-TIMEZONE">>)
       /\ b[1].s = "VCALENDAR"
    THEN LET r == ParseComps(b, 5)
         IN IF r.ok /\ r.next = Len(b)
            THEN [ok |-> TRUE,
                  cal |-> [prodid |-> b[3].s, version |-> b[2].s,
                           xwr |-> b[4].s, comps |-> r.comps]]
            ELSE [ok |-> FALSE, cal |-> NoCalendar]
    ELSE [ok |-> FALSE, cal |-> NoCalendar]

\* load_or_create_calendar, the branch for a path that does not exist
NewCalendar_bare(tzid) ==
    [prodid |-> "-//PB Calendar//", version |-> "2.0", xwr |-> tzid,
     comps |-> <<>>]
NewCalendar(tzid) ==
    [prodid |-> "-//PB Calendar//", version |-> "2.0", xwr |-> tzid,
     comps |-> <<TimezoneComp(tzid)>>]

\* load_or_create_calendar(path, tzid) on content f of the path
load_or_create_calendar_retag(f, tzid) ==
    IF f.exists
    THEN LET r == from_ical(f.data)
         IN [r EXCEPT !.cal.xwr = IF r.ok THEN tzid ELSE ""]
    ELSE [ok |-> TRUE, cal |-> NewCalendar(tzid)]
load_or_create_calendar_fresh(f, tzid) ==
    [ok |-> TRUE, cal |-> NewCalendar(tzid)]
load_or_create_calendar(f, tzid) ==
    IF f.exists
    THEN from_ical(f.data)
    ELSE [ok |-> TRUE, cal |-> NewCalendar(tzid)]

\* cal.add_component(ev)
add_component(c, ev) == [c EXCEPT !.comps = Append(c.comps, ev)]

\* dtend = dtstart + timedelta(minutes=args.duration)
EventEnd_back(dtstart, duration) == AddMinutes(dtstart, 0 - duration)
EventEnd(dtstart, duration) == AddMinutes(dtstart, duration)

\* f.write(data) on a handle opened at offset 0 of content f
WriteAt0_append(f, data) == Stored(f.data \o data)
WriteAt0(f, data) == Stored(data \o SubSeq(f.data, Len(data) + 1, Len(f.data)))

-----------------------------------------------------------------------------
(* Inputs *)

Procs == 1..MaxRuns

\* 2025-06-02, a Monday
FirstDay == Ymd2Ord(2025, 6, 2)

ClockDays == FirstDay..(FirstDay + MaxNowDays - 1)

\* UTC times of day; in Asia/Kolkata 10:00:00, 18:00:00, 18:00:30, 01:30:00 (+1 day)
ClockTimes == {<<4, 30, 0>>, <<12, 30, 0>>, <<12, 30, 30>>, <<20, 0, 0>>}

Clocks == {DateTime(d, t[1], t[2], t[3], UTC) : d \in ClockDays, t \in ClockTimes}

\* the clock values seen by invocations of main: Friday 2025-06-06, 10:00 and 20:00 IST
MainClocks == {DateTime(FirstDay + 4, 4, 30, 0, UTC),
               DateTime(FirstDay + 4, 14, 30, 0, UTC)}

\* the codes of S in week order
ByDayList(S) == SelectSeq(Codes, LAMBDA c : c \in S)

ByDayLists == {ByDayList(S) : S \in {T \in SUBSET Range(Codes) : Cardinality(T) <= MaxByDay}}

TimeStrs == {Str_18_00, Str_9_30, Str_25_00}

DateStrs == {<<>>, Str_2025_06_06, Str_2025_06_31}

Args(name, byday, time, start_date, duration, timezone) ==
    [name |-> name, byday |-> byday, time |-> time, start_date |-> start_date,
     duration |-> duration, timezone |-> timezone]

NoArgs == Args("", <<>>, <<>>, <<>>, 0, "")

\* command lines parse_args accepts, for invocations that may overlap
ArgVectors ==
    {Args("PB Hustle", <<"FR">>, Str_18_00, <<>>, 60, KOLKATA),
     Args("Standup", <<"MO", "WE">>, Str_9_30, Str_2025_06_06, 0, UTC),
     Args("Sync", <<"TU", "TH", "SU">>, Str_23_30, <<>>, 90, UTC),
     Args("Broken", <<"FR">>, Str_25_00, <<>>, 60, KOLKATA)}

\* command lines parse_args accepts, for invocations one after the other
ArgProduct ==
    {Args(IF z = KOLKATA THEN "PB Hustle" ELSE "Standup",
          IF z = KOLKATA THEN <<"FR">> ELSE <<"MO", "WE">>,
          Str_18_00, <<>>, d, z) :
        d \in {0 - 30, 0, 60},
        z \in Timezones}
    \cup {Args("Sync", <<"TU", "TH", "SU">>, Str_23_30, Str_2025_06_06, 90, z) :
        z \in Timezones}
    \cup {Args("Broken", <<"FR">>, Str_25_00, <<>>, 60, KOLKATA)}

\* a document some other producer left at the path
ForeignCalendar ==
    [prodid |-> "-//Other//", version |-> "2.0", xwr |-> "Europe/Paris",
     comps |-> <<TimezoneComp("Europe/Paris")>>]

InitialFiles == {NoFile, Stored(to_ical(ForeignCalendar))}

-----------------------------------------------------------------------------
(* main, one invocation per process *)

Finished == {"done", "aborted_load", "aborted_compute", "aborted_serialize"}

\* args = parse_args(); tz = pytz.timezone(args.timezone)
ParseArgsFrom(p, vectors) ==
    /\ pc[p] = "idle"
    /\ \A q \in Procs : q < p => pc[q] # "idle"
    /\ \E a \in vectors : args' = [args EXCEPT ![p] = a]
    /\ pc' = [pc EXCEPT ![p] = "parsed"]
    /\ UNCHANGED <<file, raw, cal, buf, wlog, calc>>

\* an invocation started while others may be running
ParseArgs(p) == ParseArgsFrom(p, ArgVectors)

\* an invocation started when no other invocation is running
ParseArgsAlone(p) ==
    /\ \A q \in Procs : pc[q] \in Finished \cup {"idle"}
    /\ ParseArgsFrom(p, ArgProduct)

\* cal = load_or_create_calendar(args.output, args.timezone)
Load(p) ==
    /\ pc[p] = "parsed"
    /\ LET r == load_or_create_calendar(file, args[p].timezone)
       IN /\ raw' = [raw EXCEPT ![p] = file]
          /\ cal' = [cal EXCEPT ![p] = r.cal]
          /\ pc' = [pc EXCEPT ![p] = IF r.ok THEN "loaded" ELSE "aborted_load"]
    /\ UNCHANGED <<file, args, buf, wlog, calc>>

\* dtstart = compute_start(...); dtend; ev = Event(); cal.add_component(ev)
Compose(p) ==
    /\ pc[p] = "loaded"
    /\ \E clock \in MainClocks :
         LET a == args[p]
             r == compute_start(a.start_date, a.time, a.byday, a.timezone, clock)
             ev == EventComp(a.name, r.start, EventEnd(r.start, a.duration),
                             a.byday)
         IN IF r.ok
            THEN /\ cal' = [cal EXCEPT ![p] = add_component(cal[p], ev)]
                 /\ pc' = [pc EXCEPT ![p] = "composed"]
            ELSE /\ cal' = cal
                 /\ pc' = [pc EXCEPT ![p] = "aborted_compute"]
    /\ UNCHANGED <<file, args, raw, buf, wlog, calc>>

\* open(args.output, 'wb'): creates the file or truncates it
OpenForWrite(p) ==
    /\ pc[p] = "composed"
    /\ file' = Stored(<<>>)
    /\ pc' = [pc EXCEPT ![p] = "opened"]
    /\ UNCHANGED <<args, raw, cal, buf, wlog, calc>>

\* cal.to_ical() raises inside the with block: the handle is closed, main ends
SerializeFails(p) ==
    /\ pc[p] = "opened"
    /\ pc' = [pc EXCEPT ![p] = "aborted_serialize"]
    /\ UNCHANGED <<file, args, raw, cal, buf, wlog, calc>>

\* f.write(cal.to_ical()) and the close of the handle
WriteFile(p) ==
    /\ pc[p] = "opened"
    /\ buf' = [buf EXCEPT ![p] = to_ical(cal[p])]
    /\ file' = WriteAt0(file, to_ical(cal[p]))
    /\ wlog' = Append(wlog, p)
    /\ pc' = [pc EXCEPT ![p] = "done"]
    /\ UNCHANGED <<args, raw, cal, calc>>

-----------------------------------------------------------------------------
(* The calculator and the fixed script applied to drawn inputs *)

NoCalc ==
    [clock |-> NoDateTime, dt_str |-> <<>>, time_str |-> <<>>, weekdays |-> <<>>,
     tz |-> "", called |-> FALSE, res |-> Failed(""), scripted |-> FALSE,
     friday |-> NoDateTime]

CallComputeStart ==
    /\ calc.clock # NoDateTime
    /\ ~calc.called
    /\ calc' = [calc EXCEPT
                  !.called = TRUE,
                  !.res = compute_start(calc.dt_str, calc.time_str,
                                        calc.weekdays, calc.tz, calc.clock)]
    /\ UNCHANGED <<file, pc, args, raw, cal, buf, wlog>>

RunScript ==
    /\ calc.clock # NoDateTime
    /\ ~calc.scripted
    /\ calc' = [calc EXCEPT !.scripted = TRUE, !.friday = first_friday(calc.clock)]
    /\ UNCHANGED <<file, pc, args, raw, cal, buf, wlog>>

-----------------------------------------------------------------------------
(* Specifications *)

InitMain ==
    /\ file \in InitialFiles
    /\ pc = [p \in Procs |-> "idle"]
    /\ args = [p \in Procs |-> NoArgs]
    /\ raw = [p \in Procs |-> NoFile]
    /\ cal = [p \in Procs |-> NoCalendar]
    /\ buf = [p \in Procs |-> <<>>]
    /\ wlog = <<>>
    /\ calc = NoCalc

InitCalc ==
    /\ file = NoFile
    /\ pc = [p \in Procs |-> "idle"]
    /\ args = [p \in Procs |-> NoArgs]
    /\ raw = [p \in Procs |-> NoFile]
    /\ cal = [p \in Procs |-> NoCalendar]
    /\ buf = [p \in Procs |-> <<>>]
    /\ wlog = <<>>
    /\ \E c \in Clocks, d \in DateStrs, t \in TimeStrs, w \in ByDayLists,
          z \in Timezones :
         calc = [NoCalc EXCEPT !.clock = c, !.dt_str = d, !.time_str = t,
                               !.weekdays = w, !.tz = z]

\* invocations of main one after the other
Next ==
    \E p \in Procs :
        \/ ParseArgsAlone(p)
        \/ Load(p)
        \/ Compose(p)
        \/ OpenForWrite(p)
        \/ SerializeFails(p)
        \/ WriteFile(p)

Spec == InitMain /\ [][Next]_vars

\* invocations of main that may overlap
NextConc ==
    \E p \in 1..MaxRacers :
        \/ ParseArgs(p)
        \/ Load(p)
        \/ Compose(p)
        \/ OpenForWrite(p)
        \/ SerializeFails(p)
        \/ WriteFile(p)

SpecConc == InitMain /\ [][NextConc]_vars

\* compute_start and the script on every drawn input
NextCalc == CallComputeStart \/ RunScript

SpecCalc == InitCalc /\ [][NextCalc]_vars

-----------------------------------------------------------------------------
(* Properties of the occurrence calculator, under SpecCalc *)

\* C1: on the next-occurrence path (no date given, weekday set not empty) the
\* returned start is the earliest instant at hh:mm:00 on a weekday of the set
\* that is strictly later than the current instant; today at hh:mm when today's
\* weekday is in the set and hh:mm has not yet passed.
C1_EarliestAfterNow ==
    (calc.called /\ calc.res.ok /\ calc.dt_str = <<>> /\ calc.weekdays # <<>>) =>
        LET now == NowIn(calc.tz, calc.clock)
            hm == IF calc.time_str = Str_18_00 THEN <<18, 0>> ELSE <<9, 30>>
            at(k) == DateTime(now.ord + k, hm[1], hm[2], 0, calc.tz)
            wds == {codes(w) : w \in Range(calc.weekdays)}
            ok(k) == (now.ord + k + 6) % 7 \in wds /\ After(at(k), now)
        IN \E k \in 0..7 :
              /\ ok(k)
              /\ \A j \in 0..(k - 1) : ~ok(j)
              /\ calc.res.start = at(k)

\* C2: on the next-occurrence path, when today does not qualify (its weekday is
\* not in the set, or hh:mm today is not strictly later than the current
\* instant) the start is hh:mm:00 on the first day strictly after today whose
\* weekday is in the set, 1 to 7 days ahead, and 7 days ahead when today's
\* weekday is the only member of the set.
C2_NextDayInSet ==
    (calc.called /\ calc.res.ok /\ calc.dt_str = <<>> /\ calc.weekdays # <<>>) =>
        LET now == NowIn(calc.tz, calc.clock)
            hm == IF calc.time_str = Str_18_00 THEN <<18, 0>> ELSE <<9, 30>>
            wds == {codes(w) : w \in Range(calc.weekdays)}
            wd(k) == (now.ord + k + 6) % 7
            today == wd(0) \in wds
                     /\ After(DateTime(now.ord, hm[1], hm[2], 0, calc.tz), now)
        IN ~today =>
             \E k \in 1..7 :
                /\ wd(k) \in wds
                /\ \A j \in 1..(k - 1) : wd(j) \notin wds
                /\ calc.res.start = DateTime(now.ord + k, hm[1], hm[2], 0, calc.tz)
                /\ (wds = {wd(0)} => k = 7)

\* C2 witness: Friday 18:00:30 in the zone, time 18:00, set {FR}: a week ahead
C2_Witness ==
    /\ calc.called /\ calc.res.ok /\ calc.dt_str = <<>>
    /\ calc.weekdays = <<"FR">> /\ calc.time_str = Str_18_00
    /\ NowIn(calc.tz, calc.clock).ord = 739408
    /\ NowIn(calc.tz, calc.clock).hour = 18
    /\ NowIn(calc.tz, calc.clock).second = 30
    /\ calc.res.start.ord = 739408 + 7

\* C3: with a start date the result is that date at the parsed hh:mm, seconds
\* zero, in the given zone, whatever the weekday set and the clock are.
C3_ExplicitDate ==
    (calc.called /\ calc.dt_str = Str_2025_06_06 /\ calc.time_str # Str_25_00) =>
        /\ calc.res.ok
        /\ calc.res.via = "explicit"
        /\ calc.res.start.ord = 739408
        /\ calc.res.start.hour = (IF calc.time_str = Str_18_00 THEN 18 ELSE 9)
        /\ calc.res.start.minute = (IF calc.time_str = Str_18_00 THEN 0 ELSE 30)
        /\ calc.res.start.second = 0
        /\ calc.res.start.tz = calc.tz

\* C3 witness: 2025-06-06 (a Friday) with the set {SA}, in Asia/Kolkata
C3_Witness ==
    /\ calc.called /\ calc.res.ok
    /\ calc.dt_str = Str_2025_06_06 /\ calc.weekdays = <<"SA">>
    /\ calc.time_str = Str_18_00 /\ calc.tz = KOLKATA
    /\ calc.res.start = DateTime(739408, 18, 0, 0, KOLKATA)

\* C9: on the next-occurrence path a non-empty weekday set makes the scan
\* return from inside the loop, at most 7 days after the adjusted now; the
\* fallback after the loop is reached exactly when the set is empty.
C9_FallbackOnlyWhenEmpty ==
    (calc.called /\ calc.res.ok /\ calc.dt_str = <<>>) =>
        /\ calc.res.via \in {"loop", "fallback"}
        /\ (calc.res.via = "fallback") <=> (calc.weekdays = <<>>)
        /\ calc.res.start.ord - NowIn(calc.tz, calc.clock).ord \in 0..7
        /\ calc.res.start.tz = calc.tz

\* C9 witness: the set holds only today's weekday, the loop returns at offset 7
C9_Witness ==
    /\ calc.called /\ calc.res.ok /\ calc.dt_str = <<>>
    /\ Len(calc.weekdays) = 1
    /\ codes(calc.weekdays[1]) = (NowIn(calc.tz, calc.clock).ord + 6) % 7
    /\ calc.res.via = "loop"
    /\ calc.res.start.ord = NowIn(calc.tz, calc.clock).ord + 7

\* C10: the script's first_friday equals compute_start with no date, time
\* "18:00", set {FR} and zone Asia/Kolkata at the same clock.
C10_ScriptAgrees ==
    (/\ calc.called /\ calc.scripted
     /\ calc.dt_str = <<>> /\ calc.time_str = Str_18_00
     /\ calc.weekdays = <<"FR">> /\ calc.tz = KOLKATA) =>
        calc.res.ok /\ calc.res.start = calc.friday

\* C10 witness: a Friday before 18:00 in the zone, both give the Friday after
C10_Witness ==
    /\ calc.called /\ calc.scripted
    /\ calc.dt_str = <<>> /\ calc.time_str = Str_18_00
    /\ calc.weekdays = <<"FR">> /\ calc.tz = KOLKATA
    /\ NowIn(KOLKATA, calc.clock).ord = 739408
    /\ NowIn(KOLKATA, calc.clock).hour = 10
    /\ calc.friday = DateTime(739408 + 7, 18, 0, 0, KOLKATA)
    /\ calc.res.start = calc.friday

-----------------------------------------------------------------------------
(* Properties of main run one invocation after the other, under Spec *)

\* C4: starting from a path that does not exist, after sequential invocations
\* the last of which succeeded the stored document is one timezone definition
\* followed by the events of the successful invocations, in invocation order,
\* each as its invocation appended it.
C4_OneTimezoneThenEvents ==
    LET fin == {p \in Procs : pc[p] \in Finished}
        done == SelectSeq([p \in Procs |-> p], LAMBDA p : pc[p] = "done")
        appended(p) == cal[p].comps[Len(cal[p].comps)]
    IN (/\ \A p \in Procs : pc[p] \in Finished \cup {"idle"}
        /\ fin # {}
        /\ ~raw[1].exists
        /\ \E p \in fin : pc[p] = "done" /\ \A q \in fin : q <= p) =>
           /\ file.exists
           /\ from_ical(file.data).ok
           /\ from_ical(file.data).cal.comps =
                  <<TimezoneComp(args[done[1]].timezone)>>
                  \o [i \in 1..Len(done) |-> appended(done[i])]
           /\ \A i \in 1..Len(done) : appended(done[i]).kind = "VEVENT"

\* C4 witness: every invocation succeeded, the first one created the file
C4_Witness ==
    /\ \A p \in Procs : pc[p] = "done"
    /\ ~raw[1].exists
    /\ Len(from_ical(file.data).cal.comps) = MaxRuns + 1

\* C5: an invocation that loaded an existing document writes back a document
\* with the PRODID, VERSION and X-WR-TIMEZONE it loaded, whatever its
\* --timezone argument is.
C5_MetadataKept ==
    \A p \in Procs :
        (pc[p] = "done" /\ raw[p].exists) =>
            LET old == from_ical(raw[p].data)
                new == from_ical(buf[p])
            IN /\ old.ok /\ new.ok
               /\ new.cal.prodid = old.cal.prodid
               /\ new.cal.version = old.cal.version
               /\ new.cal.xwr = old.cal.xwr

\* C5 witness: the --timezone argument differs from the stored X-WR-TIMEZONE
C5_Witness ==
    \E p \in Procs :
        /\ pc[p] = "done" /\ raw[p].exists
        /\ from_ical(raw[p].data).cal.xwr # args[p].timezone
        /\ from_ical(file.data).cal.xwr = from_ical(raw[p].data).cal.xwr

\* C6: when cal.to_ical() fails in the write step, the output file still has
\* the content it had before the run: it was not touched, truncated or emptied.
C6_FileUntouchedOnSerializeFailure ==
    \A p \in Procs :
        (pc[p] = "aborted_serialize" /\ \A q \in Procs : q > p => pc[q] = "idle")
            => file = raw[p]

\* C7 (as claimed): every appended event ends strictly after it starts, for
\* every --duration the command line accepts.
C7_EndAfterStart ==
    \A p \in Procs :
        pc[p] \in {"composed", "opened", "done", "aborted_serialize"} =>
            After(cal[p].comps[Len(cal[p].comps)].dtend,
                  cal[p].comps[Len(cal[p].comps)].dtstart)

\* C7 (amended): every appended event ends duration minutes after it starts,
\* in the same zone; the end is strictly after the start exactly when the
\* duration is positive.
C7_EndIsStartPlusDuration ==
    \A p \in Procs :
        pc[p] \in {"composed", "opened", "done", "aborted_serialize"} =>
            LET ev == cal[p].comps[Len(cal[p].comps)]
                mins(dt) == (dt.ord - 739000) * 1440 + dt.hour * 60 + dt.minute
            IN /\ mins(ev.dtend) - mins(ev.dtstart) = args[p].duration
               /\ ev.dtend.hour \in 0..23 /\ ev.dtend.minute \in 0..59
               /\ ev.dtend.second = ev.dtstart.second
               /\ ev.dtend.tz = ev.dtstart.tz
               /\ After(ev.dtend, ev.dtstart) <=> (args[p].duration > 0)

\* C7 witness: a stored event of positive duration that ends on the next day
C7_Witness ==
    \E p \in Procs :
        /\ pc[p] = "done" /\ args[p].duration > 0
        /\ from_ical(file.data).ok
        /\ \E i \in 1..Len(from_ical(file.data).cal.comps) :
              LET ev == from_ical(file.data).cal.comps[i]
              IN /\ ev.kind = "VEVENT"
                 /\ ev = cal[p].comps[Len(cal[p].comps)]
                 /\ ev.dtend.ord = ev.dtstart.ord + 1

-----------------------------------------------------------------------------
(* Properties of overlapping invocations of main, under SpecConc *)

====
